---- MODULE Spec2Model ----
(***************************************************************************)
(* Factor algebra and variable-elimination engine of pygmodels             *)
(* (Viva-Lambda/graphical-models): BaseFactor, FactorAlgebra and PGModel.  *)
(*                                                                         *)
(* Potentials are natural numbers: a table of the source with rational     *)
(* entries is represented by its numerators over a common denominator      *)
(* (0.25 on every row is the weight 1 on every row, in quarters).  All     *)
(* arithmetic is exact.                                                    *)
(***************************************************************************)
EXTENDS Integers, Sequences, FiniteSets, Bags, TLC

VARIABLES
    op,               \* the operation under way
    pc,               \* its position
    dom,              \* outcome values of every random variable
    V,                \* Graph.V: ids of the vertices of the model
    adj,              \* Graph.E: every edge as the set of its endpoints
    Fs,               \* PGModel.Fs: the model's factors (a bag of factors)
    queries,          \* argument queries
    evidences,        \* argument evidences: a set of <<id, value>> pairs
    self_E,           \* order_by_greedy_metric: the edges of self as it extends it
    marked,           \* order_by_greedy_metric: marked
    cardinality,      \* order_by_greedy_metric: cardinality (the ranks)
    ordering,         \* the elimination list handed to the drivers
    idx,              \* position of the driver loop in that list
    pool,             \* the working factor pool of the drivers (a bag)
    potentials,       \* max_product_eliminate_vars: Z_potential
    max_assignments,  \* traceback_map: max_assignments
    fargs,            \* arguments of a factor-algebra call
    ret               \* what the operation returned or raised

vars == <<op, pc, dom, V, adj, Fs, queries, evidences, self_E, marked,
          cardinality, ordering, idx, pool, potentials, max_assignments, fargs, ret>>

graphVars == <<V, adj, Fs>>
queryVars == <<queries, evidences>>
orderVars == <<self_E, marked, cardinality>>
elimVars  == <<ordering, idx, pool, potentials, max_assignments>>

(***************************************************************************)
(* Bounds of the model.                                                    *)
(***************************************************************************)
MaxValue    == 1   \* outcome values range over -1 .. MaxValue
MaxFactors  == 3   \* factors handed to one get_factor_product call
MaxEvidence == 2   \* evidence pairs of one query
MaxQueries  == 2   \* query variables of one query
Denominator == 4   \* probabilities are multiples of 1 / Denominator

Vars == {"A", "B", "C", "D"}
ValueUniverse == (0 - 1) .. MaxValue
Binary == {0, 1}

None == {}
Some(x) == {x}

(***************************************************************************)
(* Arithmetic over finite sets and functions.                              *)
(***************************************************************************)
RECURSIVE SumOver(_, _)
SumOver(S, g) ==
    IF S = {} THEN 0
    ELSE LET x == CHOOSE y \in S : TRUE
         IN  g[x] + SumOver(S \ {x}, g)

RECURSIVE MaxOver(_, _)
MaxOver(S, g) ==
    LET x == CHOOSE y \in S : TRUE
    IN  IF S = {x} THEN g[x]
        ELSE LET m == MaxOver(S \ {x}, g)
             IN  IF g[x] > m THEN g[x] ELSE m

Perms(S) ==
    {s \in [1 .. Cardinality(S) -> S] :
        \A i, j \in 1 .. Cardinality(S) : i # j => s[i] # s[j]}

(***************************************************************************)
(* Assignments and scopes.                                                 *)
(***************************************************************************)
\* product(*vars_domain()): the rows of the cartesian product of the
\* current domains of the scope variables
Rows(S) == {a \in [S -> ValueUniverse] : \A v \in S : a[v] \in dom[v]}

Restrict(a, S) == [v \in S |-> a[v]]

Extend(a, Y, y) == [v \in (DOMAIN a) \cup {Y} |-> IF v = Y THEN y ELSE a[v]]

Merge(a, b) ==
    [v \in (DOMAIN a) \cup (DOMAIN b) |-> IF v \in DOMAIN b THEN b[v] ELSE a[v]]

\* the factor functions the models are built from, total over assignments
Weight(name, a) ==
    LET vals == {a[v] : v \in DOMAIN a}
        same == Cardinality(vals) <= 1
    IN  CASE name = "uniform" -> 1
          [] name = "agree"   -> IF same THEN 3 ELSE 1
          [] name = "low"     -> IF vals \subseteq {0} THEN 3 ELSE 1
          [] name = "mix"     -> IF ~same THEN 1
                                 ELSE IF vals \subseteq {0} THEN 2 ELSE 3

TableNames == {"uniform", "agree", "low", "mix"}

\* a factor value: its scope and phi as a table over the rows of the scope
Factor(S, name) == [scope |-> S, table |-> [a \in Rows(S) |-> Weight(name, a)]]

NoFactor == [scope |-> {}, table |-> <<>>]

(***************************************************************************)
(* CatRandomVariable (randvar/catrandomval.py).                            *)
(***************************************************************************)
RECURSIVE psum_of(_, _)
psum_of(outcome_values, marginal_distribution) ==
    IF outcome_values = <<>> THEN 0
    ELSE marginal_distribution[Head(outcome_values)]
             + psum_of(Tail(outcome_values), marginal_distribution)

\* CatRandomVariable.__init__(node_id, input_data, f, marginal_distribution):
\* what the constructor raises.  outcome_values is input_data
\* ["outcome-values"], None when the key is absent; psum is in units of
\* 1 / Denominator.
CatRandomVariable_init(outcome_values, marginal_distribution) ==
    IF outcome_values # None
    THEN LET psum == psum_of(CHOOSE l \in outcome_values : TRUE,
                             marginal_distribution)
         IN  IF psum > Denominator /\ psum < 0
             THEN [raised |-> "ValueError"]
             ELSE [raised |-> "none"]
    ELSE [raised |-> "none"]

(***************************************************************************)
(* BaseFactor (factor/factortype/ftype.py).                                *)
(***************************************************************************)
\* BaseFactor.partition_value: the sum of phi over the rows of the scope
partition_value(f) == SumOver(Rows(f.scope), f.table)

\* has_negative_value with all() in place of any()
has_negative_value_all(scope_vars) ==
    \E v \in scope_vars : \A x \in dom[v] : x < 0

\* the check at the head of BaseFactor.__init__
has_negative_value(scope_vars) == \E v \in scope_vars : \E x \in dom[v] : x < 0

\* BaseFactor.__init__(gid, scope_vars, factor_fn): the fields of the object
\* after the constructor has run, and what it raised.  A field the
\* constructor did not reach is None.  factor_fn defaults to None, and the
\* call of it in partition_value then raises TypeError.
BaseFactor_init(scope_vars, factor_fn) ==
    IF has_negative_value(scope_vars)
    THEN [raised |-> "ValueError", svars |-> None, table |-> None, Z |-> None]
    ELSE IF factor_fn = "None"
    THEN IF Rows(scope_vars) = {}
         THEN [raised |-> "none", svars |-> Some(scope_vars),
               table |-> None, Z |-> Some(0)]
         ELSE [raised |-> "TypeError", svars |-> Some(scope_vars),
               table |-> None, Z |-> None]
    ELSE LET f == Factor(scope_vars, factor_fn)
         IN  [raised |-> "none", svars |-> Some(f.scope),
              table |-> Some(f.table), Z |-> Some(partition_value(f))]

\* the factor functions phi is tried with: the total ones of TableNames and
\* "lookup", a dict of the rows of the scope that raises KeyError elsewhere
PhiFns == TableNames \cup {"lookup"}

\* BaseFactor.phi(scope_product) of a factor built from scope_vars and
\* factor_fn: the value of factor_fn(scope_product), or what factor_fn raised
phi(scope_vars, factor_fn, scope_product) ==
    IF factor_fn = "lookup" /\ scope_product \notin Rows(scope_vars)
    THEN [err |-> "KeyError", val |-> None]
    ELSE [err |-> "none",
          val |-> Some(Weight(IF factor_fn = "lookup" THEN "mix" ELSE factor_fn,
                              scope_product))]

\* BaseFactor.vars_domain(): the list of the value sets of the scope
\* variables, each value branded with the id of its variable, in the order
\* svars the set self.svars is iterated in
vars_domain(f, svars) ==
    [i \in 1 .. Len(svars) |->
        {<<svars[i], a[svars[i]]>> : a \in DOMAIN f.table}]

\* BaseFactor.__eq__(self, n); this_svars and other_svars are the orders in
\* which the two scope sets are iterated
factor_eq(self, n, this_svars, other_svars) ==
    LET other_domain == vars_domain(n, other_svars)
        this_domain == vars_domain(self, this_svars)
    IN  IF other_domain # this_domain THEN FALSE
        ELSE \A dval \in DOMAIN n.table : self.table[dval] = n.table[dval]

(***************************************************************************)
(* FactorOps / FactorFactorableOps / FactorAnalyzer: the operations the    *)
(* wrappers of FactorAlgebra and PGModel call.  Every factor handed to     *)
(* them was constructed, so no scope variable has a negative value and     *)
(* the constructor call that wraps each result does not raise.             *)
(***************************************************************************)
\* Product(f, g): scope f.scope \cup g.scope, phi(a) = f.phi(a|f) * g.phi(a|g),
\* and the accumulator applied to the two partition values
product(f, other) ==
    LET S == f.scope \cup other.scope
    IN  [fac |-> [scope |-> S,
                  table |-> [a \in Rows(S) |->
                      f.table[Restrict(a, f.scope)]
                          * other.table[Restrict(a, other.scope)]]],
         val |-> partition_value(f) * partition_value(other)]

\* Reduce(f, evidence): the evidence pairs on variables outside f.scope are
\* ignored (PGModel hands the whole evidence set to every factor)
reduced_by_value(f, assignments) ==
    LET ev == {e \in assignments : e[1] \in f.scope}
        S  == f.scope \ {e[1] : e \in ev}
        fx == [v \in {e[1] : e \in ev} |-> (CHOOSE e \in ev : e[1] = v)[2]]
    IN  [scope |-> S,
         table |-> [a \in Rows(S) |->
             f.table[Merge(a, fx)]]]

\* SumOutVar(f, Y): phi(a) = sum over y of f.phi(a + {Y: y}); phi raises on an
\* assignment whose variables differ from the scope, so Y must be in scope
sumout_var(f, Y) ==
    IF Y \notin f.scope THEN [err |-> "ValueError", fac |-> NoFactor]
    ELSE LET S == f.scope \ {Y}
         IN  [err |-> "none",
              fac |-> [scope |-> S,
                       table |-> [a \in Rows(S) |->
                           SumOver({Extend(a, Y, y) : y \in dom[Y]}, f.table)]]]

\* MaxOutVar(f, Y): phi(a) = max over y of f.phi(a + {Y: y})
maxout_var(f, Y) ==
    IF Y \notin f.scope THEN [err |-> "ValueError", fac |-> NoFactor]
    ELSE LET S == f.scope \ {Y}
         IN  [err |-> "none",
              fac |-> [scope |-> S,
                       table |-> [a \in Rows(S) |->
                           MaxOver({Extend(a, Y, y) : y \in dom[Y]}, f.table)]]]

\* FactorAnalyzer.cls_max_value(f): the maximizing rows of f; which of several
\* is returned depends on the iteration order of hash sets
max_values(f) ==
    {a \in Rows(f.scope) : f.table[a] = MaxOver(Rows(f.scope), f.table)}

(***************************************************************************)
(* FactorAlgebra.sumout_vars (factor/factorf/factoralg.py).                *)
(***************************************************************************)
\* sumout_loop with the range one short: the last variable stays in scope
RECURSIVE sumout_loop_short(_, _, _)
sumout_loop_short(r, ylst, i) ==
    IF i >= Len(ylst) \/ r.err # "none" THEN r
    ELSE sumout_loop_short(sumout_var(r.fac, ylst[i]), ylst, i + 1)

\* the loop of sumout_vars: fac = sumout_var(fac, ylst[i]) for i in from .. len
RECURSIVE sumout_loop(_, _, _)
sumout_loop(r, ylst, i) ==
    IF i > Len(ylst) \/ r.err # "none" THEN r
    ELSE sumout_loop(sumout_var(r.fac, ylst[i]), ylst, i + 1)

\* sumout_vars without its emptiness check: an empty Ys returns f
sumout_vars_no_guard(f, Ys, ylst) ==
    IF Cardinality(Ys) = 0
    THEN [err |-> "none", fac |-> f, Ys |-> Ys]
    ELSE IF Cardinality(Ys) = 1
    THEN LET v == CHOOSE y \in Ys : TRUE
             r == sumout_var(f, v)
         IN  [err |-> r.err, fac |-> r.fac, Ys |-> Ys \ {v}]
    ELSE LET r == sumout_loop(sumout_var(f, ylst[1]), ylst, 2)
         IN  [err |-> r.err, fac |-> r.fac, Ys |-> Ys]

\* sumout_vars(f, Ys) with ylst the order in which list(Ys) enumerates Ys;
\* Ys in the result is the caller's set after the call (Ys.pop() empties a
\* one-element set)
sumout_vars(f, Ys, ylst) ==
    IF Cardinality(Ys) = 0
    THEN [err |-> "ValueError", fac |-> NoFactor, Ys |-> Ys]
    ELSE IF Cardinality(Ys) = 1
    THEN LET v == CHOOSE y \in Ys : TRUE
             r == sumout_var(f, v)
         IN  [err |-> r.err, fac |-> r.fac, Ys |-> Ys \ {v}]
    ELSE LET r == sumout_loop(sumout_var(f, ylst[1]), ylst, 2)
         IN  [err |-> r.err, fac |-> r.fac, Ys |-> Ys]

(***************************************************************************)
(* PGModel (pgmtype/pgmodel.py): products and elimination.                 *)
(***************************************************************************)
\* list(fs) for a bag of factors, in one enumeration order
RECURSIVE BagToSeq(_)
BagToSeq(b) ==
    IF DOMAIN b = {} THEN <<>>
    ELSE LET x == CHOOSE y \in DOMAIN b : TRUE
         IN  <<x>> \o BagToSeq(b (-) SetToBag({x}))

RECURSIVE SeqToBag(_)
SeqToBag(s) ==
    IF s = <<>> THEN EmptyBag ELSE SetToBag({Head(s)}) (+) SeqToBag(Tail(s))

\* the loop of get_factor_product: prod, val = product(prod, factors[i])
RECURSIVE product_loop(_, _, _)
product_loop(r, factors, i) ==
    IF i > Len(factors) THEN r
    ELSE LET p == product(r.prod, factors[i])
         IN  product_loop([err |-> "none", prod |-> p.fac, val |-> Some(p.val)],
                          factors, i + 1)

\* get_factor_product with the loop starting one too far: factors[1] of the
\* list left after pop(0) is never multiplied in
get_factor_product_skip(factors) ==
    IF Len(factors) = 0
    THEN [err |-> "ValueError", prod |-> NoFactor, val |-> None]
    ELSE IF Len(factors) = 1
    THEN [err |-> "none", prod |-> factors[1], val |-> None]
    ELSE product_loop([err |-> "none", prod |-> factors[1], val |-> None],
                      factors, 3)

\* get_factor_product(fs), factors being list(fs)
get_factor_product(factors) ==
    IF Len(factors) = 0
    THEN [err |-> "ValueError", prod |-> NoFactor, val |-> None]
    ELSE IF Len(factors) = 1
    THEN [err |-> "none", prod |-> factors[1], val |-> None]
    ELSE product_loop([err |-> "none", prod |-> factors[1], val |-> None],
                      factors, 2)

\* get_factor_product_var(fs, Z): the product of the factors with Z in scope,
\* those factors, and the others
\* get_factor_product_var whose other_factors is the whole of fs
get_factor_product_var_keep_all(fs, Z) ==
    LET factors == [f \in {x \in DOMAIN fs : Z \in x.scope} |-> fs[f]]
        r       == get_factor_product(BagToSeq(factors))
    IN  [err |-> r.err, prod |-> r.prod, factors |-> factors,
         other_factors |-> fs]

\* get_factor_product_var(fs, Z): the product of the factors of fs whose
\* scope holds Z, those factors, and the others
get_factor_product_var(fs, Z) ==
    LET factors == [f \in {x \in DOMAIN fs : Z \in x.scope} |-> fs[f]]
        r       == get_factor_product(BagToSeq(factors))
    IN  [err |-> r.err, prod |-> r.prod, factors |-> factors,
         other_factors |-> fs (-) factors]

\* eliminate_variable_by that returns the pool as it is when no factor
\* mentions Z
eliminate_variable_by_lenient(factors, Z, strategy) ==
    LET p == get_factor_product_var(factors, Z)
    IN  IF \A f \in DOMAIN factors : Z \notin f.scope
        THEN [err |-> "none", pool |-> factors, fac |-> NoFactor, prod |-> NoFactor]
        ELSE IF p.err # "none"
        THEN [err |-> p.err, pool |-> factors, fac |-> NoFactor, prod |-> NoFactor]
        ELSE LET e == IF strategy = "sum" THEN sumout_var(p.prod, Z)
                      ELSE maxout_var(p.prod, Z)
             IN  [err |-> e.err,
                  pool |-> p.other_factors (+) SetToBag({e.fac}),
                  fac |-> e.fac, prod |-> p.prod]

\* eliminate_variable_by that adds the new factor to the whole pool
eliminate_variable_by_keep_absorbed(factors, Z, strategy) ==
    LET p == get_factor_product_var(factors, Z)
    IN  IF p.err # "none"
        THEN [err |-> p.err, pool |-> factors, fac |-> NoFactor, prod |-> NoFactor]
        ELSE LET e == IF strategy = "sum" THEN sumout_var(p.prod, Z)
                      ELSE maxout_var(p.prod, Z)
             IN  [err |-> e.err,
                  pool |-> factors (+) SetToBag({e.fac}),
                  fac |-> e.fac, prod |-> p.prod]

\* eliminate_variable_by without the factors that do not mention Z
eliminate_variable_by_drop_others(factors, Z, strategy) ==
    LET p == get_factor_product_var(factors, Z)
    IN  IF p.err # "none"
        THEN [err |-> p.err, pool |-> factors, fac |-> NoFactor, prod |-> NoFactor]
        ELSE LET e == IF strategy = "sum" THEN sumout_var(p.prod, Z)
                      ELSE maxout_var(p.prod, Z)
             IN  [err |-> e.err, pool |-> SetToBag({e.fac}),
                  fac |-> e.fac, prod |-> p.prod]

\* eliminate_variable_by with the strategy fixed to max-out
eliminate_variable_by_max(factors, Z, strategy) ==
    LET p == get_factor_product_var(factors, Z)
    IN  IF p.err # "none"
        THEN [err |-> p.err, pool |-> factors, fac |-> NoFactor, prod |-> NoFactor]
        ELSE LET e == maxout_var(p.prod, Z)
             IN  [err |-> e.err,
                  pool |-> p.other_factors (+) SetToBag({e.fac}),
                  fac |-> e.fac, prod |-> p.prod]

\* eliminate_variable_by(factors, Z, elimination_strategy): the new pool, the
\* factor the strategy made of the product, and the product
eliminate_variable_by(factors, Z, strategy) ==
    LET p == get_factor_product_var(factors, Z)
    IN  IF p.err # "none"
        THEN [err |-> p.err, pool |-> factors, fac |-> NoFactor, prod |-> NoFactor]
        ELSE LET e == IF strategy = "sum" THEN sumout_var(p.prod, Z)
                      ELSE maxout_var(p.prod, Z)
             IN  [err |-> e.err,
                  pool |-> p.other_factors (+) SetToBag({e.fac}),
                  fac |-> e.fac, prod |-> p.prod]

(***************************************************************************)
(* PGModel: the elimination orderings.  Graph lookups are those of the     *)
(* graph provider: neighbors(node) and addEdgeIfAbsent(node, node).        *)
(***************************************************************************)
neighbours_of(E, X) == {n \in V \ {X} : {X, n} \in E}

nb_neighbours_of(E, n) == Cardinality(neighbours_of(E, n))

\* min_unmarked_neighbours without the test of the mark
min_neighbours_any(E, nodes, mk) ==
    {X \in nodes :
        \A Y \in nodes : nb_neighbours_of(E, X) <= nb_neighbours_of(E, Y)}

\* min_unmarked_neighbours(g, nodes, marked): the first unmarked node in the
\* list of nodes sorted by neighbour count; nodes of equal count stand in the
\* list in the iteration order of the set, so any of them may come first.
\* The empty set stands for None.
min_unmarked_neighbours(E, nodes, mk) ==
    {X \in nodes :
        /\ ~mk[X]
        /\ \A Y \in nodes : ~mk[Y] => nb_neighbours_of(E, X) <= nb_neighbours_of(E, Y)}

\* the calls added_edge_between_if_none(self, n_x, n) the fill-in loop of
\* order_by_greedy_metric makes for the selected node X, as pairs <<n_x, n>>
fill_in_requests(E, X) ==
    {<<n_x, n>> : n_x \in neighbours_of(E, X), n \in neighbours_of(E, X)}

\* fill_in of a loop that adds no edge
fill_in_none(E, X) == E

\* the edges after the fill-in loop of order_by_greedy_metric on X:
\* added_edge_between_if_none(n_x, n) for every n_x and n among the
\* neighbours of X
fill_in(E, X) ==
    E \cup {{n_x, n} : n_x \in neighbours_of(E, X), n \in neighbours_of(E, X)}

\* sorted(cardinality.items(), key=rank): the nodes by ascending rank
by_rank(card) ==
    CHOOSE s \in Perms(DOMAIN card) :
        \A i, j \in 1 .. Len(s) : i < j => card[s[i]] <= card[s[j]]

(***************************************************************************)
(* PGModel: evidence.                                                      *)
(***************************************************************************)
\* reduce_queries_with_evidence: q.reduce_to_value(ev) collapses the domain
\* of every query variable named in the evidence to its observed value
reduce_queries_with_evidence(qs, evs, d) ==
    [v \in Vars |->
        IF v \in qs /\ \E e \in evs : e[1] = v
        THEN {(CHOOSE e \in evs : e[1] = v)[2]}
        ELSE d[v]]

\* reduce_factors_with_evidence without the test of the evidence variables
reduce_factors_no_check(evs) ==
    IF evs = {} THEN [err |-> "none", factors |-> Fs, E |-> {}, Fs |-> Fs]
    ELSE [err |-> "none",
          factors |-> SeqToBag([i \in 1 .. Len(BagToSeq(Fs)) |->
                                   reduced_by_value(BagToSeq(Fs)[i], evs)]),
          E |-> {v \in V : \E e \in evs : e[1] = v},
          Fs |-> Fs]

\* reduce_factors_with_evidence storing the reduced factors in self.Fs
reduce_factors_in_place(evs) ==
    IF evs = {} THEN [err |-> "none", factors |-> Fs, E |-> {}, Fs |-> Fs]
    ELSE IF \E e \in evs : e[1] \notin V
    THEN [err |-> "ValueError", factors |-> EmptyBag, E |-> {}, Fs |-> Fs]
    ELSE LET reduced == SeqToBag([i \in 1 .. Len(BagToSeq(Fs)) |->
                                     reduced_by_value(BagToSeq(Fs)[i], evs)])
         IN  [err |-> "none", factors |-> reduced,
              E |-> {v \in V : \E e \in evs : e[1] = v},
              Fs |-> reduced]

\* reduce_factors_with_evidence(evidences): the reduced factors and E, the
\* vertices named in the evidence; Fs is self.Fs after the call (factors()
\* copies self.Fs into a new set and the reduced factors are new objects)
reduce_factors_with_evidence(evs) ==
    IF evs = {} THEN [err |-> "none", factors |-> Fs, E |-> {}, Fs |-> Fs]
    ELSE IF \E e \in evs : e[1] \notin V
    THEN [err |-> "ValueError", factors |-> EmptyBag, E |-> {}, Fs |-> Fs]
    ELSE [err |-> "none",
          factors |-> SeqToBag([i \in 1 .. Len(BagToSeq(Fs)) |->
                                   reduced_by_value(BagToSeq(Fs)[i], evs)]),
          E |-> {v \in V : \E e \in evs : e[1] = v},
          Fs |-> Fs]

(***************************************************************************)
(* Calls of the factor algebra on their own: the inputs are drawn in the   *)
(* initial state, one action per function applies it.                      *)
(***************************************************************************)
BinaryDom == [v \in Vars |-> Binary]

NoArgs == [svars |-> {}, fn |-> "None", fs |-> <<>>, f |-> NoFactor, Ys |-> {},
           row |-> <<>>, factors |-> None, other |-> NoFactor, nlst |-> <<>>,
           outcome_values |-> None, dist |-> <<>>,
           Z |-> "None", strategy |-> "None"]

\* the variables whose domains the constructor calls range over
CtorVars == {"A", "B"}

\* factors the algebra calls are tried on (dom is the binary domain there)
AlgFactors ==
    {Factor(S, t) : S \in {{"A", "B"}, {"B", "C"}}, t \in {"agree", "mix"}}
        \cup {Factor({"A"}, "mix"), Factor({"C", "D"}, "low")}

SumoutFactors ==
    AlgFactors \cup {product(f, g).fac : f, g \in AlgFactors}

\* factors compared by __eq__: over one and two variables, and one whose
\* variable A has the single outcome value 0
EqFactors ==
    {Factor(S, t) : S \in {{"A", "B"}, {"A"}}, t \in {"agree", "mix", "uniform"}}
        \cup {[scope |-> {"A", "B"},
               table |-> [a \in {r \in [{"A", "B"} -> Binary] : r["A"] = 0} |->
                             Weight("agree", a)]]}

SeqsUpTo(S, n) == UNION {[1 .. k -> S] : k \in 0 .. n}

InitIdle ==
    /\ V = {} /\ adj = {} /\ Fs = EmptyBag
    /\ queries = {} /\ evidences = {}
    /\ self_E = {} /\ marked = <<>> /\ cardinality = <<>>
    /\ ordering = <<>> /\ idx = 0 /\ pool = EmptyBag
    /\ potentials = <<>> /\ max_assignments = <<>>

InitAlgebra ==
    /\ pc = "call"
    /\ ret = None
    /\ InitIdle
    /\ \/ /\ op = "BaseFactor"
          /\ dom \in {d \in [Vars -> (SUBSET ValueUniverse) \ {{}}] :
                          \A v \in Vars \ CtorVars : d[v] = Binary}
          /\ \E S \in SUBSET CtorVars, fn \in TableNames \cup {"None"} :
                 fargs = [NoArgs EXCEPT !.svars = S, !.fn = fn]
       \/ /\ op = "get_factor_product"
          /\ dom = BinaryDom
          /\ \E fs \in SeqsUpTo(AlgFactors, MaxFactors) :
                 fargs = [NoArgs EXCEPT !.fs = fs]
       \/ /\ op = "sumout_vars"
          /\ dom = BinaryDom
          /\ \E f \in SumoutFactors, Ys \in SUBSET Vars :
                 fargs = [NoArgs EXCEPT !.f = f, !.Ys = Ys]
       \/ /\ op = "CatRandomVariable"
          /\ dom = BinaryDom
          /\ \E ov \in {None} \cup {Some(l) : l \in SeqsUpTo(Binary, 2)},
                d \in [Binary -> (0 - 1) .. Denominator] :
                 fargs = [NoArgs EXCEPT !.outcome_values = ov, !.dist = d]
       \/ /\ op = "eliminate_variable_by"
          /\ dom = BinaryDom
          /\ \E fs \in SeqsUpTo(AlgFactors, MaxFactors), Z \in Vars,
                st \in {"sum", "max"} :
                 fargs = [NoArgs EXCEPT !.fs = fs, !.Z = Z, !.strategy = st]
       \/ /\ op = "eq"
          /\ dom = BinaryDom
          /\ \E f \in EqFactors, n \in EqFactors :
                 fargs = [NoArgs EXCEPT !.f = f, !.other = n]
       \/ /\ op = "phi"
          /\ dom = BinaryDom
          /\ \E S \in SUBSET CtorVars, fn \in PhiFns :
             \E T \in SUBSET {"A", "B", "C"} : \E a \in Rows(T) :
                 fargs = [NoArgs EXCEPT !.svars = S, !.fn = fn, !.row = a]

\* BaseFactor(gid, scope_vars, factor_fn)
Construct ==
    /\ op = "BaseFactor" /\ pc = "call"
    /\ ret' = BaseFactor_init(fargs.svars, fargs.fn)
    /\ pc' = "done"
    /\ UNCHANGED <<op, dom, graphVars, queryVars, orderVars, elimVars, fargs>>

\* PGModel.get_factor_product(fs); fargs.fs is list(fs)
CallGetFactorProduct ==
    /\ op = "get_factor_product" /\ pc = "call"
    /\ ret' = get_factor_product(fargs.fs)
    /\ pc' = "done"
    /\ UNCHANGED <<op, dom, graphVars, queryVars, orderVars, elimVars, fargs>>

\* FactorAlgebra.sumout_vars(f, Ys); list(Ys) may enumerate Ys in any order.
\* fargs.Ys becomes the caller's set after the call.
CallSumoutVars ==
    /\ op = "sumout_vars" /\ pc = "call"
    /\ \E ylst \in Perms(fargs.Ys) :
           LET r == sumout_vars(fargs.f, fargs.Ys, ylst)
           IN  /\ ret' = [err |-> r.err, fac |-> r.fac, ylst |-> ylst,
                          Ys |-> fargs.Ys]
               /\ fargs' = [fargs EXCEPT !.Ys = r.Ys]
    /\ pc' = "done"
    /\ UNCHANGED <<op, dom, graphVars, queryVars, orderVars, elimVars>>

\* f.phi(scope_product) on a factor f built from fargs.svars and fargs.fn
CallPhi ==
    /\ op = "phi" /\ pc = "call"
    /\ ret' = phi(fargs.svars, fargs.fn, fargs.row)
    /\ pc' = "done"
    /\ UNCHANGED <<op, dom, graphVars, queryVars, orderVars, elimVars, fargs>>

\* f == n for two factors; each scope set is iterated in some order
CallEq ==
    /\ op = "eq" /\ pc = "call"
    /\ \E this_svars \in Perms(fargs.f.scope), other_svars \in Perms(fargs.other.scope) :
           ret' = [val |-> factor_eq(fargs.f, fargs.other, this_svars, other_svars),
                   this_svars |-> this_svars, other_svars |-> other_svars]
    /\ pc' = "done"
    /\ UNCHANGED <<op, dom, graphVars, queryVars, orderVars, elimVars, fargs>>

\* CatRandomVariable(node_id, input_data, marginal_distribution=dist)
ConstructVariable ==
    /\ op = "CatRandomVariable" /\ pc = "call"
    /\ ret' = CatRandomVariable_init(fargs.outcome_values, fargs.dist)
    /\ pc' = "done"
    /\ UNCHANGED <<op, dom, graphVars, queryVars, orderVars, elimVars, fargs>>

\* PGModel.eliminate_variable_by(factors, Z, elimination_strategy);
\* fargs.fs lists the members of factors
CallEliminateVariableBy ==
    /\ op = "eliminate_variable_by" /\ pc = "call"
    /\ LET r == eliminate_variable_by(SeqToBag(fargs.fs), fargs.Z,
                                      fargs.strategy)
       IN  IF r.err # "none"
           THEN pc' = "raised" /\ ret' = [err |-> r.err]
           ELSE pc' = "done" /\ ret' = r
    /\ UNCHANGED <<op, dom, graphVars, queryVars, orderVars, elimVars, fargs>>

NextAlgebra ==
    \/ Construct \/ CallGetFactorProduct \/ CallSumoutVars \/ CallPhi \/ CallEq
    \/ ConstructVariable \/ CallEliminateVariableBy

SpecAlgebra == InitAlgebra /\ [][NextAlgebra]_vars

(***************************************************************************)
(* The queries of PGModel, one step of their loops per action:             *)
(*   "cond"  cond_prod_by_variable_elimination(queries, evidences)         *)
(*   "mpe"   mpe_prob(evidences), which runs max_product_ve(evidences)     *)
(*   "spe"   sum_product_elimination(factors, Zs) on a list Zs of its own  *)
(***************************************************************************)
NoRet == [err |-> "none", phi |-> NoFactor, alpha |-> NoFactor,
          assignments |-> <<>>, factors |-> EmptyBag, z_phi |-> NoFactor,
          mpe_prob |-> None]

Raised(kind) == [NoRet EXCEPT !.err = kind]

\* BeginCond whose Zs keeps the query variables
BeginCond_keep_queries ==
    /\ op = "cond" /\ pc = "start"
    /\ IF ~(queries \subseteq V)
       THEN /\ pc' = "raised" /\ ret' = Raised("ValueError")
            /\ UNCHANGED <<dom, Fs, pool, orderVars>>
       ELSE LET r == reduce_factors_with_evidence(evidences)
                Zs == V \ r.E
            IN  /\ dom' = reduce_queries_with_evidence(queries, evidences, dom)
                /\ Fs' = r.Fs
                /\ IF r.err # "none"
                   THEN /\ pc' = "raised" /\ ret' = Raised(r.err)
                        /\ UNCHANGED <<pool, orderVars>>
                   ELSE /\ pc' = "order" /\ ret' = ret
                        /\ pool' = r.factors
                        /\ self_E' = adj
                        /\ marked' = [z \in Zs |-> FALSE]
                        /\ cardinality' = [z \in Zs |-> 0 - 1]
    /\ UNCHANGED <<op, V, adj, queryVars, ordering, idx, potentials,
                   max_assignments, fargs>>

\* the entry of cond_prod_by_variable_elimination, up to the call of
\* order_by_greedy_metric on Zs
BeginCond ==
    /\ op = "cond" /\ pc = "start"
    /\ IF ~(queries \subseteq V)
       THEN /\ pc' = "raised" /\ ret' = Raised("ValueError")
            /\ UNCHANGED <<dom, Fs, pool, orderVars>>
       ELSE LET r == reduce_factors_with_evidence(evidences)
                Zs == (V \ r.E) \ queries
            IN  /\ dom' = reduce_queries_with_evidence(queries, evidences, dom)
                /\ Fs' = r.Fs
                /\ IF r.err # "none"
                   THEN /\ pc' = "raised" /\ ret' = Raised(r.err)
                        /\ UNCHANGED <<pool, orderVars>>
                   ELSE /\ pc' = "order" /\ ret' = ret
                        /\ pool' = r.factors
                        /\ self_E' = adj
                        /\ marked' = [z \in Zs |-> FALSE]
                        /\ cardinality' = [z \in Zs |-> 0 - 1]
    /\ UNCHANGED <<op, V, adj, queryVars, ordering, idx, potentials,
                   max_assignments, fargs>>

\* the entry of max_product_ve, up to the call of order_by_greedy_metric
BeginMpe ==
    /\ op = "mpe" /\ pc = "start"
    /\ LET r == reduce_factors_with_evidence(evidences)
           Zs == V \ r.E
       IN  /\ Fs' = r.Fs
           /\ IF r.err # "none"
              THEN /\ pc' = "raised" /\ ret' = Raised(r.err)
                   /\ UNCHANGED <<pool, orderVars>>
              ELSE /\ pc' = "order" /\ ret' = ret
                   /\ pool' = r.factors
                   /\ self_E' = adj
                   /\ marked' = [z \in Zs |-> FALSE]
                   /\ cardinality' = [z \in Zs |-> 0 - 1]
    /\ UNCHANGED <<op, dom, V, adj, queryVars, ordering, idx, potentials,
                   max_assignments, fargs>>

\* one iteration of the loop of order_by_greedy_metric
OrderStep ==
    /\ pc = "order"
    /\ \E X \in min_unmarked_neighbours(self_E, DOMAIN marked, marked) :
           /\ cardinality' = [cardinality EXCEPT
                  ![X] = Cardinality({n \in DOMAIN marked : marked[n]})]
           /\ self_E' = fill_in(self_E, X)
           /\ marked' = [marked EXCEPT ![X] = TRUE]
    /\ UNCHANGED <<op, pc, dom, graphVars, queryVars, elimVars, fargs, ret>>

\* order_by_greedy_metric returns; the caller sorts the nodes by rank
OrderDone ==
    /\ pc = "order"
    /\ \A n \in DOMAIN marked : marked[n]
    /\ ordering' = by_rank(cardinality)
    /\ idx' = 1
    /\ pc' = "elim"
    /\ UNCHANGED <<op, dom, graphVars, queryVars, orderVars, pool, potentials,
                   max_assignments, fargs, ret>>

\* EliminateStep of a loop that records maxed_out, the second value returned
EliminateStep_maxed_out ==
    /\ pc = "elim" /\ idx <= Len(ordering)
    /\ LET r == eliminate_variable_by(pool, ordering[idx],
                                      IF op = "mpe" THEN "max" ELSE "sum")
       IN  IF r.err # "none"
           THEN /\ pc' = "raised" /\ ret' = Raised(r.err)
                /\ UNCHANGED <<idx, pool, potentials>>
           ELSE /\ pool' = r.pool
                /\ idx' = idx + 1
                /\ potentials' = IF op = "mpe" THEN Append(potentials, r.fac)
                                 ELSE potentials
                /\ UNCHANGED <<pc, ret>>
    /\ UNCHANGED <<op, dom, graphVars, queryVars, orderVars, ordering,
                   max_assignments, fargs>>

\* EliminateStep of a loop that drops the pool returned by the elimination
EliminateStep_keep_pool ==
    /\ pc = "elim" /\ idx <= Len(ordering)
    /\ LET r == eliminate_variable_by(pool, ordering[idx],
                                      IF op = "mpe" THEN "max" ELSE "sum")
       IN  IF r.err # "none"
           THEN /\ pc' = "raised" /\ ret' = Raised(r.err)
                /\ UNCHANGED <<idx, pool, potentials>>
           ELSE /\ pool' = pool
                /\ idx' = idx + 1
                /\ potentials' = IF op = "mpe" THEN Append(potentials, r.prod)
                                 ELSE potentials
                /\ UNCHANGED <<pc, ret>>
    /\ UNCHANGED <<op, dom, graphVars, queryVars, orderVars, ordering,
                   max_assignments, fargs>>

\* one iteration of the loop of sum_product_elimination (sum_prod_var_eliminate)
\* or of max_product_eliminate_vars (max_product_eliminate_var)
EliminateStep ==
    /\ pc = "elim" /\ idx <= Len(ordering)
    /\ LET r == eliminate_variable_by(pool, ordering[idx],
                                      IF op = "mpe" THEN "max" ELSE "sum")
       IN  IF r.err # "none"
           THEN /\ pc' = "raised" /\ ret' = Raised(r.err)
                /\ UNCHANGED <<idx, pool, potentials>>
           ELSE /\ pool' = r.pool
                /\ idx' = idx + 1
                /\ potentials' = IF op = "mpe" THEN Append(potentials, r.prod)
                                 ELSE potentials
                /\ UNCHANGED <<pc, ret>>
    /\ UNCHANGED <<op, dom, graphVars, queryVars, orderVars, ordering,
                   max_assignments, fargs>>

\* the end of sum_product_elimination and, for "cond", of
\* conditional_prod_by_variable_elimination: phi is the product of the pool,
\* alpha is sumout_vars(phi, queries)
SumFinish ==
    /\ op \in {"cond", "spe"} /\ pc = "elim" /\ idx > Len(ordering)
    /\ LET p == get_factor_product(BagToSeq(pool))
       IN  IF p.err # "none"
           THEN pc' = "raised" /\ ret' = Raised(p.err)
           ELSE IF op = "spe"
           THEN pc' = "done" /\ ret' = [NoRet EXCEPT !.phi = p.prod]
           ELSE \E ylst \in Perms(queries) :
                    LET a == sumout_vars(p.prod, queries, ylst)
                    IN  IF a.err # "none"
                        THEN pc' = "raised" /\ ret' = Raised(a.err)
                        ELSE /\ pc' = "done"
                             /\ ret' = [NoRet EXCEPT !.phi = p.prod,
                                                     !.alpha = a.fac]
    /\ UNCHANGED <<op, dom, graphVars, queryVars, orderVars, elimVars, fargs>>

\* the end of the loop of max_product_eliminate_vars: traceback_map is
\* entered; with an empty Zs the loop never bound z_phi and the return
\* statement raises
MaxFinish ==
    /\ op = "mpe" /\ pc = "elim" /\ idx > Len(ordering)
    /\ IF Len(ordering) = 0
       THEN pc' = "raised" /\ ret' = Raised("UnboundLocalError") /\ idx' = idx
       ELSE pc' = "trace" /\ ret' = ret /\ idx' = Len(potentials)
    /\ UNCHANGED <<op, dom, graphVars, queryVars, orderVars, ordering, pool,
                   potentials, max_assignments, fargs>>

\* TraceStep of a loop that passes over a potential with an empty diff
TraceStep_skip_empty ==
    /\ pc = "trace" /\ idx >= 1
    /\ \E pmax \in max_values(potentials[idx]) :
           LET diff == {v \in DOMAIN pmax : v \notin DOMAIN max_assignments}
           IN  IF diff = {}
               THEN /\ idx' = idx - 1
                    /\ UNCHANGED <<pc, ret, max_assignments>>
               ELSE \E v \in diff :
                        /\ max_assignments' = Extend(max_assignments, v, pmax[v])
                        /\ idx' = idx - 1
                        /\ UNCHANGED <<pc, ret>>
    /\ UNCHANGED <<op, dom, graphVars, queryVars, orderVars, ordering, pool,
                   potentials, fargs>>

\* one iteration of the loop of traceback_map, from the last potential to
\* the first; diff.pop() raises KeyError on an empty diff
TraceStep ==
    /\ pc = "trace" /\ idx >= 1
    /\ \E pmax \in max_values(potentials[idx]) :
           LET diff == {v \in DOMAIN pmax : v \notin DOMAIN max_assignments}
           IN  IF diff = {}
               THEN /\ pc' = "raised" /\ ret' = Raised("KeyError")
                    /\ UNCHANGED <<idx, max_assignments>>
               ELSE \E v \in diff :
                        /\ max_assignments' = Extend(max_assignments, v, pmax[v])
                        /\ idx' = idx - 1
                        /\ UNCHANGED <<pc, ret>>
    /\ UNCHANGED <<op, dom, graphVars, queryVars, orderVars, ordering, pool,
                   potentials, fargs>>

\* mpe_prob adding the values of z_phi up
mpe_prob_sum(z_phi) == SumOver(Rows(z_phi.scope), z_phi.table)

\* mpe_prob(evidences), after max_product_ve: the largest value of z_phi
\* over the rows of its scope
mpe_prob(z_phi) == MaxOver(Rows(z_phi.scope), z_phi.table)

\* traceback_map and max_product_ve return; mpe_prob takes the maximum of
\* z_phi, the last product built by the loop, over its rows
TraceDone ==
    /\ pc = "trace" /\ idx = 0
    /\ LET z_phi == potentials[Len(potentials)]
       IN  ret' = [NoRet EXCEPT
                      !.assignments = max_assignments,
                      !.factors = pool,
                      !.z_phi = z_phi,
                      !.mpe_prob = Some(mpe_prob(z_phi))]
    /\ pc' = "done"
    /\ UNCHANGED <<op, dom, graphVars, queryVars, orderVars, elimVars, fargs>>

(***************************************************************************)
(* The models and arguments the queries are tried on.                      *)
(***************************************************************************)
Shapes ==
    { [V |-> {"A", "B"}, E |-> {{"A", "B"}}, scopes |-> <<{"A", "B"}>>],
      [V |-> {"A", "B"}, E |-> {{"A", "B"}},
       scopes |-> <<{"A", "B"}, {"A", "B"}>>],
      [V |-> {"A", "B", "C"}, E |-> {{"A", "B"}},
       scopes |-> <<{"A", "B"}>>],
      [V |-> {"A", "B", "C"}, E |-> {{"A", "B"}, {"B", "C"}},
       scopes |-> <<{"A", "B"}, {"B", "C"}>>],
      [V |-> {"A", "B", "C"}, E |-> {{"A", "B"}, {"B", "C"}, {"A", "C"}},
       scopes |-> <<{"A", "B"}, {"B", "C"}, {"A", "C"}>>],
      [V |-> Vars, E |-> {{"A", "B"}, {"C", "D"}},
       scopes |-> <<{"A", "B"}, {"C", "D"}>>],
      [V |-> Vars, E |-> {{"A", "B"}, {"B", "C"}, {"C", "D"}},
       scopes |-> <<{"A", "B"}, {"B", "C"}, {"C", "D"}>>] }

\* the factor bag of a shape with table t[i] on its i-th scope
FactorsOf(sh, t) ==
    SeqToBag([i \in 1 .. Len(sh.scopes) |-> Factor(sh.scopes[i], t[i])])

\* evidence sets: at most n pairs, no variable named twice
EvidenceSets(n) ==
    {ev \in SUBSET (Vars \X Binary) :
        /\ Cardinality(ev) <= n
        /\ \A e1, e2 \in ev : e1[1] = e2[1] => e1 = e2}

QuerySets(n) == {q \in SUBSET Vars : Cardinality(q) <= n}

InitQuery(o, tables) ==
    /\ op = o
    /\ pc = "start"
    /\ dom = BinaryDom
    /\ \E sh \in Shapes : \E t \in [1 .. Len(sh.scopes) -> tables] :
           /\ V = sh.V
           /\ adj = sh.E
           /\ Fs = FactorsOf(sh, t)
    /\ evidences \in EvidenceSets(MaxEvidence)
    /\ self_E = {} /\ marked = <<>> /\ cardinality = <<>>
    /\ ordering = <<>> /\ idx = 0 /\ pool = EmptyBag
    /\ potentials = <<>> /\ max_assignments = <<>>
    /\ fargs = NoArgs
    /\ ret = NoRet

InitCond ==
    /\ InitQuery("cond", {"uniform", "mix"})
    /\ queries \in QuerySets(MaxQueries)

NextCond == BeginCond \/ OrderStep \/ OrderDone \/ EliminateStep \/ SumFinish

SpecCond == InitCond /\ [][NextCond]_vars

InitMpe ==
    /\ InitQuery("mpe", TableNames)
    /\ queries = {}

NextMpe ==
    \/ BeginMpe \/ OrderStep \/ OrderDone \/ EliminateStep
    \/ MaxFinish \/ TraceStep \/ TraceDone

SpecMpe == InitMpe /\ [][NextMpe]_vars

\* either query, on the same models
InitQueries == InitCond \/ InitMpe

NextQueries ==
    \/ BeginCond \/ BeginMpe \/ OrderStep \/ OrderDone \/ EliminateStep
    \/ SumFinish \/ MaxFinish \/ TraceStep \/ TraceDone

SpecQueries == InitQueries /\ [][NextQueries]_vars

\* sum_product_elimination(factors, Zs) called with the factors of a model
\* and any list Zs of distinct vertices
InitElim ==
    /\ op = "spe"
    /\ pc = "elim"
    /\ dom = BinaryDom
    /\ \E sh \in Shapes : \E t \in [1 .. Len(sh.scopes) -> TableNames] :
           /\ V = sh.V
           /\ adj = sh.E
           /\ Fs = FactorsOf(sh, t)
           /\ pool = Fs
           /\ \E Zs \in SUBSET sh.V : ordering \in Perms(Zs)
    /\ idx = 1
    /\ queries = {} /\ evidences = {}
    /\ self_E = {} /\ marked = <<>> /\ cardinality = <<>>
    /\ potentials = <<>> /\ max_assignments = <<>>
    /\ fargs = NoArgs
    /\ ret = NoRet

NextElim == EliminateStep \/ SumFinish

SpecElim == InitElim /\ [][NextElim]_vars

\* the two elimination loops: sum_product_elimination on any list, and
\* max_product_eliminate_vars inside max_product_ve
InitLoops == InitElim \/ InitMpe

NextLoops == NextElim \/ NextMpe

SpecLoops == InitLoops /\ [][NextLoops]_vars

(***************************************************************************)
(* traceback_map(potentials, X_is) called on its own with any list of      *)
(* potentials; fargs.nlst is X_is, which the function never reads.         *)
(***************************************************************************)
TracePotentials ==
    {Factor(S, t) : S \in {{"A"}, {"B"}, {"A", "B"}, {"B", "C"}},
                    t \in {"agree", "mix"}}

InitTrace ==
    /\ op = "traceback_map"
    /\ pc = "trace"
    /\ dom = BinaryDom
    /\ V = {} /\ adj = {} /\ Fs = EmptyBag
    /\ queries = {} /\ evidences = {}
    /\ self_E = {} /\ marked = <<>> /\ cardinality = <<>>
    /\ ordering = <<>> /\ pool = EmptyBag
    /\ potentials \in SeqsUpTo(TracePotentials, MaxFactors)
    /\ idx = Len(potentials)
    /\ max_assignments = <<>>
    /\ \E S \in SUBSET {"A", "B"} : \E X_is \in Perms(S) :
           fargs = [NoArgs EXCEPT !.nlst = X_is]
    /\ ret = NoRet

\* traceback_map returns max_assignments
TraceReturn ==
    /\ op = "traceback_map" /\ pc = "trace" /\ idx = 0
    /\ ret' = [NoRet EXCEPT !.assignments = max_assignments]
    /\ pc' = "done"
    /\ UNCHANGED <<op, dom, graphVars, queryVars, orderVars, elimVars, fargs>>

NextTrace == TraceStep \/ TraceReturn

SpecTrace == InitTrace /\ [][NextTrace]_vars

(***************************************************************************)
(* The two ordering heuristics called on their own: fargs.svars is the     *)
(* argument nodes, fargs.nlst the order in which that set is iterated.     *)
(***************************************************************************)
GraphEdges == {e \in SUBSET Vars : Cardinality(e) = 2}

InitOrder ==
    /\ op \in {"greedy", "max_cardinality"}
    /\ pc = "start"
    /\ dom = BinaryDom
    /\ V = Vars
    /\ adj \in SUBSET GraphEdges
    /\ \E nodes \in SUBSET Vars :
       \E nlst \in (IF op = "greedy" THEN {<<>>} ELSE Perms(nodes)) :
           fargs = [NoArgs EXCEPT !.svars = nodes, !.nlst = nlst]
    /\ Fs = EmptyBag
    /\ queries = {} /\ evidences = {}
    /\ self_E = {} /\ marked = <<>> /\ cardinality = <<>>
    /\ ordering = <<>> /\ idx = 0 /\ pool = EmptyBag
    /\ potentials = <<>> /\ max_assignments = <<>>
    /\ ret = NoRet

\* the head of order_by_greedy_metric and of order_by_max_cardinality:
\* marked = {n.id(): False ...}, cardinality = {n.id(): -1 ...}
BeginOrder ==
    /\ op \in {"greedy", "max_cardinality"} /\ pc = "start"
    /\ marked' = [n \in fargs.svars |-> FALSE]
    /\ cardinality' = [n \in fargs.svars |-> 0 - 1]
    /\ self_E' = adj
    /\ idx' = 0
    /\ pc' = IF op = "greedy" THEN "order" ELSE "max_cardinality"
    /\ UNCHANGED <<op, dom, graphVars, queryVars, ordering, pool, potentials,
                   max_assignments, fargs, ret>>

\* one iteration of the outer loop of order_by_max_cardinality.  The inner
\* loop visits every node in the order nlst; for an unmarked node it looks
\* up marked[n_.id()] for each neighbour n_, which raises KeyError for a
\* neighbour outside nodes.  The two locals it updates
\* (nb_marked_neighbours, unmarked_node_with_largest_marked_neighbor) are
\* never read.  After the inner loop n is the node visited last, and it is
\* that node which gets rank i and the mark.
MaxCardinalityStep ==
    /\ op = "max_cardinality" /\ pc = "max_cardinality"
    /\ idx < Len(fargs.nlst)
    /\ LET nlst == fargs.nlst
           n == nlst[Len(nlst)]
           key_error == \E m \in fargs.svars :
                            /\ ~marked[m]
                            /\ \E n_ \in neighbours_of(adj, m) : n_ \notin fargs.svars
       IN  IF key_error
           THEN /\ pc' = "raised" /\ ret' = Raised("KeyError")
                /\ UNCHANGED <<marked, cardinality, idx>>
           ELSE /\ cardinality' = [cardinality EXCEPT ![n] = idx]
                /\ marked' = [marked EXCEPT ![n] = TRUE]
                /\ idx' = idx + 1
                /\ UNCHANGED <<pc, ret>>
    /\ UNCHANGED <<op, dom, graphVars, queryVars, self_E, ordering, pool,
                   potentials, max_assignments, fargs>>

\* order_by_max_cardinality returns cardinality
MaxCardinalityDone ==
    /\ op = "max_cardinality" /\ pc = "max_cardinality"
    /\ idx = Len(fargs.nlst)
    /\ pc' = "done"
    /\ UNCHANGED <<op, dom, graphVars, queryVars, orderVars, elimVars, fargs, ret>>

NextOrder ==
    \/ BeginOrder \/ OrderStep \/ OrderDone
    \/ MaxCardinalityStep \/ MaxCardinalityDone

SpecOrder == InitOrder /\ [][NextOrder]_vars

(***************************************************************************)
(* PGModel.__init__ (pgmtype/pgmodel.py).                                  *)
(***************************************************************************)
\* the marginal distribution of a random variable, in quarters
rv_p(v, x) == IF v \in {"A", "C"} THEN (IF x = 0 THEN 1 ELSE 3) ELSE 2

RECURSIVE joint_p(_, _)
joint_p(a, S) ==
    IF S = {} THEN 1
    ELSE LET v == CHOOSE y \in S : TRUE
         IN  rv_p(v, a[v]) * joint_p(a, S \ {v})

\* Factor(gid, scope_vars) without a factor function: the product of the
\* marginals of the scope variables
joint_factor(S) == [scope |-> S, table |-> [a \in Rows(S) |-> joint_p(a, S)]]

\* PGModel.__init__ keeping the default factors unreduced
PGModel_init_no_reduce(edges, node_evidence, factors, elst) ==
    IF factors = None
    THEN SeqToBag([i \in 1 .. Len(elst) |-> joint_factor(elst[i])])
    ELSE CHOOSE b \in factors : TRUE

\* PGModel.__init__(gid, nodes, edges, factors): self.Fs after construction.
\* node_evidence holds the pair (id, data["evidence"]) of every node whose
\* data has the key, elst is the order in which self.E is iterated.
PGModel_init(edges, node_evidence, factors, elst) ==
    IF factors = None
    THEN SeqToBag([i \in 1 .. Len(elst) |->
             LET e == elst[i]
                 evs == {p \in node_evidence : p[1] \in e}
                 f == joint_factor(e)
             IN  IF Cardinality(evs) # 0 THEN reduced_by_value(f, evs) ELSE f])
    ELSE CHOOSE b \in factors : TRUE

ModelNodes == {"A", "B", "C"}

\* edges between the nodes, loops included
ModelEdges == {{u, w} : u, w \in ModelNodes}

SuppliedFactors ==
    {SeqToBag(fs) : fs \in SeqsUpTo({Factor({"A", "B"}, "agree"),
                                      Factor({"B", "C"}, "mix")}, 2)}

InitModel ==
    /\ op = "PGModel"
    /\ pc = "call"
    /\ dom = BinaryDom
    /\ V = ModelNodes
    /\ adj \in {E \in SUBSET ModelEdges : Cardinality(E) <= 4}
    /\ evidences \in {ev \in EvidenceSets(MaxEvidence) :
                          \A p \in ev : p[1] \in ModelNodes}
    /\ \E fs \in {None} \cup {Some(b) : b \in SuppliedFactors} :
           fargs = [NoArgs EXCEPT !.factors = fs]
    /\ Fs = EmptyBag
    /\ queries = {}
    /\ self_E = {} /\ marked = <<>> /\ cardinality = <<>>
    /\ ordering = <<>> /\ idx = 0 /\ pool = EmptyBag
    /\ potentials = <<>> /\ max_assignments = <<>>
    /\ ret = None

\* PGModel(gid, nodes, edges, factors); evidences holds the evidence found in
\* the data of the nodes
ConstructModel ==
    /\ op = "PGModel" /\ pc = "call"
    /\ \E elst \in Perms(adj) :
           Fs' = PGModel_init(adj, evidences, fargs.factors, elst)
    /\ pc' = "done"
    /\ UNCHANGED <<op, dom, V, adj, queryVars, orderVars, elimVars, fargs, ret>>

NextModel == ConstructModel

SpecModel == InitModel /\ [][NextModel]_vars

(***************************************************************************)
(* Claims about the factor algebra, checked under SpecAlgebra.             *)
(***************************************************************************)
\* the product of all factors of fs on row a, each factor taken once
RECURSIVE RowProduct(_, _, _)
RowProduct(fs, a, n) ==
    IF n = 0 THEN 1
    ELSE fs[n].table[Restrict(a, fs[n].scope)] * RowProduct(fs, a, n - 1)

ProductOfAll(fs) ==
    LET S == UNION {fs[i].scope : i \in 1 .. Len(fs)}
    IN  [scope |-> S, table |-> [a \in Rows(S) |-> RowProduct(fs, a, Len(fs))]]

\* f with every variable of Ys summed out, each once, in no particular order
Marginal(f, Ys) ==
    LET S == f.scope \ Ys
    IN  [scope |-> S,
         table |-> [a \in Rows(S) |->
             SumOver({b \in Rows(f.scope) : Restrict(b, S) = a}, f.table)]]

\* C6: get_factor_product raises on zero factors, returns the sole factor
\* itself with None as auxiliary scalar on one factor, and on two or more
\* returns the product of all of them, each factor multiplied in once.
C6_GetFactorProduct ==
    (op = "get_factor_product" /\ pc = "done") =>
        LET fs == fargs.fs
        IN  /\ Len(fs) = 0 => ret.err = "ValueError" /\ ret.prod = NoFactor
            /\ Len(fs) = 1 =>
                   ret.err = "none" /\ ret.prod = fs[1] /\ ret.val = None
            /\ Len(fs) >= 2 =>
                   ret.err = "none" /\ ret.prod = ProductOfAll(fs)

C6_Witness ==
    /\ op = "get_factor_product" /\ pc = "done"
    /\ Len(fargs.fs) = 3
    /\ fargs.fs[1] # fargs.fs[2] /\ fargs.fs[2] # fargs.fs[3]
    /\ ret.err = "none"
    /\ ret.prod.scope = {"A", "B", "C"}

\* C8: constructing a factor raises whenever a scope variable has a negative
\* outcome value, and then svars, the factor function and Z are not set; with
\* no negative value the constructor does not raise that error.
C8_NegativeValueRejected ==
    (op = "BaseFactor" /\ pc = "done") =>
        LET neg == \E v \in fargs.svars : \E x \in dom[v] : x < 0
        IN  /\ neg => /\ ret.raised = "ValueError"
                      /\ ret.svars = None /\ ret.table = None /\ ret.Z = None
            /\ ~neg => ret.raised # "ValueError"

C8_Witness ==
    /\ op = "BaseFactor" /\ pc = "done"
    /\ fargs.svars = {"A", "B"}
    /\ dom["A"] = {0, 1} /\ dom["B"] = {0 - 1, 1}
    /\ fargs.fn = "agree"
    /\ ret.raised = "ValueError"

\* C9: sumout_vars(f, Ys) with Ys empty raises and returns no factor.
C9_SumoutEmptyRaises ==
    (op = "sumout_vars" /\ pc = "done" /\ ret.Ys = {}) =>
        ret.err = "ValueError" /\ ret.fac = NoFactor

C9_Witness ==
    /\ op = "sumout_vars" /\ pc = "done"
    /\ ret.Ys = {} /\ fargs.f.scope = {"A", "B", "C"}
    /\ ret.err = "ValueError"

\* C10: for non-empty Ys within the scope of f, sumout_vars(f, Ys) returns f
\* with each variable of Ys summed out once: the scope is f.scope \ Ys and
\* the table is the same whatever the order list(Ys) enumerates Ys in.
C10_SumoutOrderIrrelevant ==
    (op = "sumout_vars" /\ pc = "done" /\ ret.Ys # {}) =>
        /\ ret.Ys \subseteq fargs.f.scope => ret.err = "none"
        /\ ret.err = "none" => ret.fac = Marginal(fargs.f, ret.Ys)

C10_Witness ==
    /\ op = "sumout_vars" /\ pc = "done"
    /\ fargs.f.scope = {"A", "B", "C"}
    /\ ret.ylst = <<"C", "A">>
    /\ ret.err = "none"
    /\ ret.fac.scope = {"B"}

(***************************************************************************)
(* Claims about the queries of PGModel.                                    *)
(***************************************************************************)
\* the factors of the model reduced by the evidence, and their product
ReducedFs == reduce_factors_with_evidence(evidences).factors

JointRef == ProductOfAll(BagToSeq(ReducedFs))

UnknownEvidence == \E e \in evidences : e[1] \notin V

\* C7: cond_prod_by_variable_elimination raises when the queries are not a
\* subset of the vertices, and raises when an evidence pair names a variable
\* that is no vertex; no result is returned in either case.
C7_CondRaisesOnBadArguments ==
    (pc # "start" /\ (~(queries \subseteq V) \/ UnknownEvidence))
        => /\ pc = "raised"
           /\ ret = Raised("ValueError")

C7_Witness ==
    /\ pc = "raised"
    /\ queries \subseteq V /\ queries # {}
    /\ UnknownEvidence
    /\ \E e \in evidences : e[1] \in V

ElimSet == {ordering[i] : i \in 1 .. Len(ordering)}

Covered == \A z \in ElimSet : \E f \in DOMAIN Fs : z \in f.scope

\* C5: for a fixed factor set and a fixed set Zs, sum_product_elimination
\* gives the same outcome for every ordering of Zs: when each variable of Zs
\* occurs in some factor it returns the product of all the factors with the
\* variables of Zs summed out (same scope, same value on every row), and
\* otherwise it raises.
C5_OrderIndependent ==
    (pc \in {"done", "raised"})
        => IF Covered
           THEN /\ pc = "done"
                /\ ret.phi = Marginal(ProductOfAll(BagToSeq(Fs)), ElimSet)
           ELSE pc = "raised"

C5_Witness ==
    /\ pc = "done"
    /\ ordering = <<"C", "A", "B">>
    /\ V = Vars
    /\ Cardinality(DOMAIN Fs) = 3
    /\ \E a, b \in Rows({"D"}) : ret.phi.table[a] # ret.phi.table[b]

EvidenceVars == {v \in V : \E e \in evidences : e[1] = v}

\* the uniform model on two variables (0.25 on every row, written 1), queried
\* for A given B = 0
UniformExample ==
    /\ V = {"A", "B"}
    /\ Fs = SetToBag({Factor({"A", "B"}, "uniform")})
    /\ evidences = {<<"B", 0>>}
    /\ queries = {"A"}

\* C1 (as the code has it): the conditional query returns the pair phi, alpha
\* where phi is the product of the evidence-reduced factors with every
\* variable outside queries and evidence summed out, and alpha is phi summed
\* over the query variables: a factor of empty scope whose one value is the
\* sum of phi over its rows, so that phi divided by alpha sums to 1.  On the
\* uniform model with B = 0 and query {A}, phi is 0.25 on both rows and
\* alpha is 0.5, so that phi / alpha is 0.5 for A = 0 and for A = 1.
C1_AlphaIsNormalisingConstant ==
    (pc = "done")
        => /\ ret.phi = Marginal(JointRef, (V \ EvidenceVars) \ queries)
           /\ ret.alpha = Marginal(ret.phi, queries)
           /\ ret.alpha.scope = {}
           /\ \A a \in Rows({}) :
                  ret.alpha.table[a] = SumOver(Rows(ret.phi.scope), ret.phi.table)
           /\ UniformExample
                  => /\ ret.phi.table = [a \in Rows({"A"}) |-> 1]
                     /\ \A a \in Rows({}) : ret.alpha.table[a] = 2

C1_Witness ==
    /\ pc = "done"
    /\ UniformExample
    /\ ret.phi.scope = {"A"}

\* C1 (as stated): alpha is a distribution over the query variables, phi
\* divided by its sum, and on the uniform model with B = 0 and query {A} it
\* is 0.5 (written 2) on A = 0 and on A = 1.
C1_AlphaIsDistribution ==
    (pc = "done")
        => /\ ret.alpha.scope = queries
           /\ \A a \in Rows(queries) :
                  ret.alpha.table[a] * SumOver(Rows(queries), ret.phi.table)
                      = ret.phi.table[a] * SumOver(Rows(queries), ret.alpha.table)
           /\ UniformExample => ret.alpha.table = [a \in Rows({"A"}) |-> 2]

MaxJoint == MaxOver(Rows(JointRef.scope), JointRef.table)

\* C2: the assignment max_product_ve returns, substituted into the product
\* of the evidence-reduced factors, gives mpe_prob, and no complete
\* assignment of the non-evidence variables gives more.
C2_TracebackValid ==
    (pc = "done")
        => LET val == JointRef.table[Restrict(ret.assignments, JointRef.scope)]
           IN  /\ ret.mpe_prob = Some(val)
               /\ val = MaxJoint

\* C3: mpe_prob is the maximum, over the complete assignments of the
\* non-evidence variables, of the product of all the evidence-reduced
\* factors, also when the factors fall into disconnected groups.
C3_MpeProbIsJointMax ==
    (pc = "done") => ret.mpe_prob = Some(MaxJoint)

\* the chain A - B - C with weight 3 on equal pairs and 1 on mismatches
ChainAgree ==
    /\ V = {"A", "B", "C"}
    /\ adj = {{"A", "B"}, {"B", "C"}}
    /\ Fs = SetToBag({Factor({"A", "B"}, "agree"), Factor({"B", "C"}, "agree")})
    /\ evidences = {}

AllSame(x) == [v \in {"A", "B", "C"} |-> x]

C11_PhiScopeMismatchFails ==
    (op = "phi" /\ pc = "done" /\ DOMAIN fargs.row # fargs.svars)
        => ret.err # "none" /\ ret.val = None

\* C12: a call of sumout_vars(f, Ys) leaves its arguments as they were: the
\* set Ys holds the same elements after the call as before, whatever its
\* size, and f is the same factor.
C12_SumoutVarsLeavesYs ==
    (op = "sumout_vars" /\ pc = "done")
        => /\ fargs.Ys = ret.Ys
           /\ fargs.f \in SumoutFactors

(***************************************************************************)
(* Frame claims about the queries.                                         *)
(***************************************************************************)
\* C13: no step of cond_prod_by_variable_elimination or of max_product_ve
\* changes the factor set Fs of the model, whether the call goes on to
\* return or to raise; the steps work on the pool.
C13_FsUnchanged == [][Fs' = Fs]_vars

C13_Witness ==
    /\ pc \in {"done", "raised"}
    /\ evidences # {}
    /\ \E e \in evidences : \E f \in DOMAIN Fs : e[1] \in f.scope
    /\ pool # Fs /\ pool # EmptyBag

\* C14: after cond_prod_by_variable_elimination, returning or raising, every
\* random variable has the domain it had before the call, a query variable
\* named in the evidence included.
C14_VariablesOnlyRead ==
    (op = "cond" /\ pc \in {"done", "raised"}) => dom = BinaryDom

(***************************************************************************)
(* Claims about the construction of a PGModel, checked under SpecModel.    *)
(***************************************************************************)
\* the factor an edge gets by default: scope the endpoints without evidence,
\* value the product of the endpoints' marginals at the row completed by the
\* evidence
EdgeFactor(e) ==
    LET S == {v \in e : ~\E p \in evidences : p[1] = v}
        val(v, a) == IF v \in S THEN a[v]
                     ELSE (CHOOSE p \in evidences : p[1] = v)[2]
    IN  [scope |-> S,
         table |-> [a \in Rows(S) |->
             IF Cardinality(e) = 1
             THEN rv_p(CHOOSE v \in e : TRUE, val(CHOOSE v \in e : TRUE, a))
             ELSE LET u == CHOOSE v \in e : TRUE
                      w == CHOOSE v \in e : v # u
                  IN  rv_p(u, val(u, a)) * rv_p(w, val(w, a))]]

\* C15: a PGModel built without factors holds exactly one factor per edge,
\* the pairwise factor over the two endpoints reduced by the evidence of
\* each endpoint that carries evidence and unreduced when neither does; a
\* PGModel built with factors holds exactly the supplied set.
C15_DefaultFactors ==
    (op = "PGModel" /\ pc = "done")
        => IF fargs.factors = None
           THEN /\ BagCardinality(Fs) = Cardinality(adj)
                /\ \A f \in DOMAIN Fs :
                       Fs[f] = Cardinality({e \in adj : EdgeFactor(e) = f})
                /\ \A e \in adj :
                       /\ EdgeFactor(e) \in DOMAIN Fs
                       /\ (\A p \in evidences : p[1] \notin e)
                              => EdgeFactor(e) = joint_factor(e)
           ELSE fargs.factors = Some(Fs)

C15_Witness ==
    /\ op = "PGModel" /\ pc = "done"
    /\ fargs.factors = None
    /\ adj = {{"A", "B"}, {"B", "C"}, {"A", "C"}}
    /\ evidences = {<<"A", 1>>, <<"B", 0>>}
    /\ \E f \in DOMAIN Fs : f.scope = {}

\* C16: f == n is true exactly when the scope variables of the two factors
\* have the same domains and phi agrees on every row, whatever the order in
\* which the scope variables are enumerated.
C16_EqIsValueEquality ==
    (op = "eq" /\ pc = "done") => (ret.val <=> fargs.f = fargs.other)

(***************************************************************************)
(* Claims about the ordering heuristics, checked under SpecOrder.          *)
(***************************************************************************)
MarkedNodes == {n \in DOMAIN marked : marked[n]}

\* the ranks given so far are 0 .. k-1 for k marked nodes, one each, and the
\* unmarked nodes have the initial rank -1
RanksInSelectionOrder ==
    /\ DOMAIN cardinality = fargs.svars
    /\ DOMAIN marked = fargs.svars
    /\ {cardinality[n] : n \in MarkedNodes} = 0 .. (Cardinality(MarkedNodes) - 1)
    /\ \A m, n \in MarkedNodes : cardinality[m] = cardinality[n] => m = n
    /\ \A n \in fargs.svars \ MarkedNodes : cardinality[n] = 0 - 1

\* C17: order_by_greedy_metric(nodes) with the default metric returns a
\* total rank assignment: the keys are exactly the ids of nodes and the
\* ranks are a bijection onto 0 .. |nodes|-1 given in selection order, for
\* every graph and every subset nodes of its vertices.
C17_GreedyRanksTotal ==
    (op = "greedy" /\ pc \in {"order", "elim"})
        => /\ RanksInSelectionOrder
           /\ pc = "elim" => MarkedNodes = fargs.svars

C17_Witness ==
    /\ op = "greedy" /\ pc = "elim"
    /\ fargs.svars = {"A", "B", "C"}
    /\ adj = {{"A", "B"}, {"A", "C"}, {"A", "D"}}
    /\ cardinality["A"] = 2
    /\ self_E # adj

\* C18: order_by_max_cardinality(nodes) gives every node of nodes a distinct
\* rank in 0 .. |nodes|-1: each of the |nodes| iterations ranks and marks an
\* unmarked node.
C18_MaxCardinalityRanksTotal ==
    (op = "max_cardinality" /\ pc \in {"max_cardinality", "done", "raised"})
        => /\ pc # "raised"
           /\ RanksInSelectionOrder
           /\ pc = "done" => MarkedNodes = fargs.svars

(***************************************************************************)
(* Claims about random variables, checked under SpecAlgebra.               *)
(***************************************************************************)
\* C19: constructing a CatRandomVariable whose marginal_distribution values
\* over its outcome values add up to more than one raises ValueError.
C19_ProbabilitySumChecked ==
    (/\ op = "CatRandomVariable" /\ pc = "done"
     /\ fargs.outcome_values # None
     /\ psum_of(CHOOSE l \in fargs.outcome_values : TRUE, fargs.dist) > Denominator)
        => ret.raised = "ValueError"

(***************************************************************************)
(* Claims about one elimination step, checked under SpecAlgebra.           *)
(***************************************************************************)
\* the factors of the argument pool whose scope holds Z / does not hold Z
ArgWithZ ==
    LET fs == SeqToBag(fargs.fs)
    IN  [f \in {x \in DOMAIN fs : fargs.Z \in x.scope} |-> fs[f]]

ArgWithoutZ ==
    LET fs == SeqToBag(fargs.fs)
    IN  [f \in {x \in DOMAIN fs : fargs.Z \notin x.scope} |-> fs[f]]

\* C20: eliminate_variable_by(factors, Z, strategy) splits factors into two
\* disjoint parts covering the pool, those whose scope contains Z and those
\* whose scope does not; the returned pool is the second part plus the one
\* factor the strategy makes of the product of the first part, returned
\* with that factor and the product; no factor of the returned pool has Z in
\* its scope.
C20_EliminateSplitsPool ==
    (op = "eliminate_variable_by" /\ pc = "done") =>
        LET p == get_factor_product(BagToSeq(ArgWithZ))
            e == IF fargs.strategy = "sum" THEN sumout_var(p.prod, fargs.Z)
                 ELSE maxout_var(p.prod, fargs.Z)
        IN  /\ ArgWithZ (+) ArgWithoutZ = SeqToBag(fargs.fs)
            /\ DOMAIN ArgWithZ \cap DOMAIN ArgWithoutZ = {}
            /\ ret.prod = p.prod
            /\ ret.fac = e.fac
            /\ ret.pool = ArgWithoutZ (+) SetToBag({ret.fac})
            /\ BagCardinality(ret.pool) = BagCardinality(ArgWithoutZ) + 1
            /\ \A f \in DOMAIN ret.pool : fargs.Z \notin f.scope

\* an elimination that multiplied two factors and kept another aside
C20_Witness ==
    /\ op = "eliminate_variable_by" /\ pc = "done"
    /\ BagCardinality(ArgWithZ) = 2
    /\ BagCardinality(ArgWithoutZ) = 1
    /\ fargs.strategy = "max"
    /\ ret.pool = ArgWithoutZ (+) SetToBag({ret.fac})

(***************************************************************************)
(* Claims about the elimination loops, checked under SpecElim and SpecMpe. *)
(***************************************************************************)
\* the variables in the scope of some factor of a pool
scope_of_pool(b) == UNION {f.scope : f \in DOMAIN b}

\* C21: sum_product_elimination eliminates the variables one per step in
\* the order of Zs: the step at position idx takes exactly Zs[idx] out of
\* the scopes of the pool, and none of Zs[1..idx] is in the scope of a pool
\* factor afterwards, nor in the scope of the final product.
C21_EliminatedStaysEliminated ==
    [][((op = "spe" /\ pc = "elim" /\ idx' = idx + 1) =>
            (/\ ordering[idx] \in scope_of_pool(pool)
             /\ scope_of_pool(pool') = scope_of_pool(pool) \ {ordering[idx]}
             /\ \A i \in 1 .. idx : ordering[i] \notin scope_of_pool(pool')))
       /\ ((op = "spe" /\ pc = "elim" /\ pc' = "done") =>
            (/\ idx = Len(ordering) + 1
             /\ \A i \in 1 .. Len(ordering) : ordering[i] \notin ret'.phi.scope
             /\ ret'.phi.scope = scope_of_pool(pool)))]_vars

\* a finished elimination of two variables that leaves a third in the product
C21_Witness ==
    /\ op = "spe" /\ pc = "done"
    /\ Len(ordering) = 2
    /\ ret.phi.scope # {}
    /\ scope_of_pool(Fs) = ret.phi.scope \cup {ordering[1], ordering[2]}

(***************************************************************************)
(* Claims about the conditional query, checked under SpecCond.             *)
(***************************************************************************)
\* the vertices that are neither evidence variables nor query variables
NonQueryNonEvidence == (V \ {e[1] : e \in evidences}) \ queries

\* C22: in cond_prod_by_variable_elimination the set of variables handed to
\* the ordering and then eliminated is exactly the vertices minus the
\* evidence variables minus the query variables; when the query returns,
\* every one of them has been eliminated and no other variable has.
C22_EliminatedAreTheOthers ==
    (op = "cond") =>
        /\ (pc = "order") => DOMAIN marked = NonQueryNonEvidence
        /\ (pc \in {"elim", "done"}) =>
               /\ {ordering[i] : i \in 1 .. Len(ordering)} = NonQueryNonEvidence
               /\ Len(ordering) = Cardinality(NonQueryNonEvidence)
        /\ (pc = "done") =>
               /\ idx = Len(ordering) + 1
               /\ ret.phi.scope \cap NonQueryNonEvidence = {}

\* a returned query with a query variable, an evidence variable and an
\* eliminated variable
C22_Witness ==
    /\ op = "cond" /\ pc = "done"
    /\ queries # {} /\ evidences # {}
    /\ {e[1] : e \in evidences} \cap queries = {}
    /\ Len(ordering) >= 1

(***************************************************************************)
(* Claims about order_by_greedy_metric, checked under SpecOrder.           *)
(***************************************************************************)
\* the node X a step of the loop selects, ranks and marks
SelectedNode == CHOOSE X \in DOMAIN marked : marked'[X] /\ ~marked[X]

GreedyStep == op = "greedy" /\ pc = "order" /\ marked' # marked

\* the number of neighbours of n that are not marked
nb_unmarked_neighbours_of(E, n, mk) ==
    Cardinality({m \in neighbours_of(E, n) : m \notin DOMAIN mk \/ ~mk[m]})

\* C23: at each iteration of order_by_greedy_metric with the default metric
\* the node selected is an unmarked node whose number of unmarked
\* neighbours, in the graph with the fill-in edges so far, is minimal among
\* the unmarked nodes of nodes.
C23_SelectsFewestUnmarkedNeighbours ==
    [][GreedyStep =>
          /\ ~marked[SelectedNode]
          /\ \A Y \in DOMAIN marked :
                 ~marked[Y] =>
                     nb_unmarked_neighbours_of(self_E, SelectedNode, marked)
                         <= nb_unmarked_neighbours_of(self_E, Y, marked)]_vars

\* C24: before the selected node X is marked, a fill-in edge is inserted
\* between every pair of X's still-unmarked neighbours that is not already
\* connected: right after the step the unmarked neighbours of X are pairwise
\* adjacent, and no edge of the working graph is lost, so that the later
\* steps count their neighbours with these edges.
C24_FillInConnectsNeighbours ==
    [][GreedyStep =>
          LET unmarked_nbs == {m \in neighbours_of(self_E, SelectedNode) :
                                  m \notin DOMAIN marked \/ ~marked[m]}
          IN  /\ \A a, b \in unmarked_nbs : a # b => {a, b} \in self_E'
              /\ self_E \subseteq self_E'
              /\ marked'[SelectedNode]]_vars

\* a run in which a fill-in edge between two nodes was added
C24_Witness ==
    /\ op = "greedy" /\ pc = "order"
    /\ \E e \in self_E \ adj : Cardinality(e) = 2

\* the product of the factors of the working pool that mention Zs[idx]
StepProduct ==
    LET Z == ordering[idx]
    IN  get_factor_product(BagToSeq(
            [f \in {x \in DOMAIN pool : Z \in x.scope} |-> pool[f]])).prod

MaxStep == op = "mpe" /\ pc = "elim" /\ idx' = idx + 1

\* C25 (as stated): max_product_eliminate_vars records one potential per
\* variable of Zs, in the order of Zs, and the potential recorded for Zs[i]
\* is the factor resulting from the elimination of Zs[i], the second value
\* returned by eliminate_variable_by.
C25_PotentialIsMaxedOut ==
    [][(MaxStep =>
           /\ Len(potentials) = idx - 1
           /\ potentials' = Append(potentials,
                                   maxout_var(StepProduct, ordering[idx]).fac))
       /\ ((op = "mpe" /\ pc = "elim" /\ pc' = "trace") =>
               Len(potentials) = Len(ordering))]_vars

\* C25 (amended): one potential per variable of Zs, in the order of Zs, and
\* the potential recorded for Zs[i] is the product of the pool factors that
\* mention Zs[i], before Zs[i] is maxed out (the third value returned by
\* eliminate_variable_by); its scope still holds Zs[i].
C25_PotentialIsProduct ==
    [][(MaxStep =>
           /\ Len(potentials) = idx - 1
           /\ potentials' = Append(potentials, StepProduct)
           /\ ordering[idx] \in potentials'[idx].scope)
       /\ ((op = "mpe" /\ pc = "elim" /\ pc' = "trace") =>
               Len(potentials) = Len(ordering))]_vars

\* the traceback is entered with the potentials of two eliminated variables
C25_Witness ==
    /\ op = "mpe" /\ pc = "trace"
    /\ Len(ordering) >= 2
    /\ Len(potentials) = Len(ordering)
    /\ idx = Len(potentials)

(***************************************************************************)
(* Claims about traceback_map, checked under SpecTrace and SpecMpe.        *)
(***************************************************************************)
\* C26: traceback_map walks the potentials from the last to the first, and
\* it fails with an error, never returning an assignment, whenever at some
\* step every variable of the current potential's maximizing assignment has
\* already been fixed by the potentials processed before it.
C26_TracebackFailsOnNothingNew ==
    [][(op = "traceback_map" /\ pc = "trace" /\ idx >= 1) =>
          /\ (potentials[idx].scope \subseteq DOMAIN max_assignments) =>
                 (pc' = "raised" /\ ret'.err = "KeyError")
          /\ (pc' = "trace") =>
                 /\ idx' = idx - 1
                 /\ \E v \in potentials[idx].scope \ DOMAIN max_assignments :
                        DOMAIN max_assignments' = DOMAIN max_assignments \cup {v}
          /\ pc' # "done"]_vars

\* a traceback that fixed a variable and then met a potential over nothing new
C26_Witness ==
    /\ op = "traceback_map" /\ pc = "raised"
    /\ ret.err = "KeyError"
    /\ idx >= 1 /\ idx < Len(potentials)
    /\ potentials[idx].scope # {}
    /\ potentials[idx].scope \subseteq DOMAIN max_assignments

\* C27: whenever traceback_map(potentials, X_is) returns, every variable of
\* X_is has a fixed value in the returned assignment, and each value fixed
\* is a maximizing value of its potential restricted to the values fixed by
\* the potentials processed before it (those of the variables eliminated
\* later).
C27_TracebackFixesConditionalMaxima ==
    (op = "mpe" /\ pc = "done") =>
        \A i \in 1 .. Len(ordering) :
            LET later == {ordering[j] : j \in (i + 1) .. Len(ordering)}
                rows  == {a \in Rows(potentials[i].scope) :
                             \A v \in potentials[i].scope \cap later :
                                 a[v] = ret.assignments[v]}
            IN  /\ ordering[i] \in DOMAIN ret.assignments
                /\ \E a \in rows :
                       /\ a[ordering[i]] = ret.assignments[ordering[i]]
                       /\ potentials[i].table[a]
                              = MaxOver(rows, potentials[i].table)

\* C28: eliminate_variable_by raises ValueError when no factor of the pool
\* has Z in its scope, so sum_product_elimination and
\* max_product_eliminate_vars fail, returning no result, for every
\* elimination list that contains a variable outside the scope of all pool
\* factors, such as an isolated vertex.
C28_AbsentVariableRaises ==
    [][((pc = "elim" /\ idx <= Len(ordering)
            /\ ordering[idx] \notin scope_of_pool(pool)) =>
           (pc' = "raised" /\ ret'.err = "ValueError"))
       /\ ((\E i \in 1 .. Len(ordering) : ordering[i] \notin scope_of_pool(Fs)) =>
               pc' \notin {"trace", "done"})]_vars

\* an elimination that raised at a variable no factor mentions, after it
\* had eliminated another one
C28_Witness ==
    /\ op \in {"spe", "mpe"} /\ pc = "raised"
    /\ ret.err = "ValueError"
    /\ idx >= 2 /\ idx <= Len(ordering)
    /\ ordering[idx] \notin scope_of_pool(Fs)

\* the number of factors of a pool whose scope holds Z
nb_factors_with(b, Z) ==
    BagCardinality([f \in {x \in DOMAIN b : Z \in x.scope} |-> b[f]])

\* C29: the pool returned by eliminate_variable_by holds exactly (number of
\* pool factors whose scope does not contain Z) + 1 factors; hence over a
\* run of sum_product_elimination the number of factors in the working pool
\* never increases from one step to the next, and it decreases whenever two
\* or more factors contain the eliminated variable.
C29_PoolNeverGrows ==
    [][(op = "spe" /\ pc = "elim" /\ idx' = idx + 1) =>
          LET with == nb_factors_with(pool, ordering[idx])
          IN  /\ BagCardinality(pool') = (BagCardinality(pool) - with) + 1
              /\ BagCardinality(pool') <= BagCardinality(pool)
              /\ (with >= 2) => BagCardinality(pool') < BagCardinality(pool)]_vars

\* a run whose pool has shrunk by a step that multiplied two factors
C29_Witness ==
    /\ op = "spe" /\ pc = "elim"
    /\ idx = 2
    /\ nb_factors_with(Fs, ordering[1]) >= 2
    /\ BagCardinality(pool) < BagCardinality(Fs)

\* C30: the fill-in step of order_by_greedy_metric asks for an edge only
\* between two distinct neighbours of the selected node that are both still
\* unmarked: never from a node to itself, never with an already marked
\* endpoint, never incident to the selected node.
C30_FillInAsksOnlyUnmarkedPairs ==
    [][GreedyStep =>
          \A r \in fill_in_requests(self_E, SelectedNode) :
              /\ r[1] # r[2]
              /\ \A i \in {1, 2} :
                     /\ r[i] \in neighbours_of(self_E, SelectedNode)
                     /\ r[i] # SelectedNode
                     /\ r[i] \in DOMAIN marked => ~marked[r[i]]]_vars

====
